---- MODULE Spec2Model ----
(***************************************************************************)
(* Model of the MCP tool server: the Express routes on /mcp, the seven     *)
(* registered tool handlers (five joke tools, get-jira-issues,             *)
(* get-servicenow-incidents) and the query strings the two ticketing       *)
(* handlers build.  A string is a sequence of one-character strings, so    *)
(* that trimming, joining, splitting and percent-encoding are computed.    *)
(***************************************************************************)
EXTENDS Integers, Sequences, FiniteSets, TLC

(* ---------------------------- bounds ---------------------------------- *)
NumRequests == 2
MaxLimit == 3
MaxItems == 2

Requests == 1..NumRequests

(* ------------------------- string primitives -------------------------- *)
WhiteSpace == {" ", "\t", "\n"}

RECURSIVE TrimStart(_)
TrimStart(s) ==
  IF s # <<>> /\ Head(s) \in WhiteSpace THEN TrimStart(Tail(s)) ELSE s

RECURSIVE TrimEnd(_)
TrimEnd(s) ==
  IF s # <<>> /\ s[Len(s)] \in WhiteSpace
  THEN TrimEnd(SubSeq(s, 1, Len(s) - 1)) ELSE s

\* String.prototype.trim
Trim(s) == TrimEnd(TrimStart(s))

\* Array.prototype.join
RECURSIVE Join(_, _)
Join(parts, sep) ==
  IF parts = <<>> THEN <<>>
  ELSE IF Len(parts) = 1 THEN parts[1]
  ELSE parts[1] \o sep \o Join(Tail(parts), sep)

\* characters encodeURIComponent leaves alone
Unreserved ==
  { "A","B","C","D","E","F","G","H","I","J","K","L","M","N","O","P","Q","R",
    "S","T","U","V","W","X","Y","Z",
    "a","b","c","d","e","f","g","h","i","j","k","l","m","n","o","p","q","r",
    "s","t","u","v","w","x","y","z",
    "0","1","2","3","4","5","6","7","8","9",
    "-","_",".","!","~","*","'","(",")" }

PercentCode(c) ==
  CASE c = " "  -> <<"%","2","0">>
    [] c = "\"" -> <<"%","2","2">>
    [] c = "="  -> <<"%","3","D">>
    [] c = "^"  -> <<"%","5","E">>
    [] c = "#"  -> <<"%","2","3">>
    [] c = ":"  -> <<"%","3","A">>
    [] c = "\t" -> <<"%","0","9">>
    [] c = "\n" -> <<"%","0","A">>
    [] OTHER    -> <<"%","?","?">>

RECURSIVE encodeURIComponent(_)
encodeURIComponent(s) ==
  IF s = <<>> THEN <<>>
  ELSE (IF Head(s) \in Unreserved THEN <<Head(s)>> ELSE PercentCode(Head(s)))
       \o encodeURIComponent(Tail(s))

\* an optional argument that was supplied (zod .optional(): absent = undefined)
Has(a, f) == f \in DOMAIN a

\* JavaScript truthiness of an optional string argument
Truthy(a, f) == Has(a, f) /\ a[f] # <<>>

\* params.f?.trim() used as a condition
TrimTruthy(a, f) == Has(a, f) /\ Trim(a[f]) # <<>>

DefaultLimit == 5

\* mutant: the limit argument is never read
LimitIgnored(a) == DefaultLimit

\* limit ?? 5
LimitOrDefault(a) == IF Has(a, "limit") THEN a.limit ELSE DefaultLimit

(* --------------------------- literals --------------------------------- *)
sAnd == <<" ","A","N","D"," ">>
sCaret == <<"^">>
sQuote == <<"\"">>
sNewline == <<"\n">>
sProjectEq == <<"p","r","o","j","e","c","t","=">>
sStatusEq == <<"s","t","a","t","u","s","=">>
sSummaryTilde == <<"s","u","m","m","a","r","y","~">>
sLabelsEq == <<"l","a","b","e","l","s","=">>
sAssigneeEq == <<"a","s","s","i","g","n","e","e","=">>
sIssuetypeEq == <<"i","s","s","u","e","t","y","p","e","=">>
sAssignedToEq == <<"a","s","s","i","g","n","e","d","_","t","o","=">>
sStateEq == <<"s","t","a","t","e","=">>
sPriorityEq == <<"p","r","i","o","r","i","t","y","=">>
sShortDescLike ==
  <<"s","h","o","r","t","_","d","e","s","c","r","i","p","t","i","o","n",
    "L","I","K","E">>
sNoIssues ==
  <<"N","o"," ","m","a","t","c","h","i","n","g"," ","i","s","s","u","e","s",
    " ","f","o","u","n","d",".">>
sNoIncidents ==
  <<"N","o"," ","i","n","c","i","d","e","n","t","s"," ","f","o","u","n","d",".">>
sJiraError == <<"J","i","r","a"," ","e","r","r","o","r",":"," ">>
sSnError ==
  <<"S","e","r","v","i","c","e","N","o","w"," ","e","r","r","o","r",":"," ">>
sYoMommaFailed ==
  <<"F","a","i","l","e","d"," ","t","o"," ","f","e","t","c","h"," ",
    "Y","o"," ","M","o","m","m","a"," ","j","o","k","e">>
sCategoryColon == <<"C","a","t","e","g","o","r","y",":"," ">>
sJokeColon == <<"\n","J","o","k","e",":"," ">>
sCommaSpace == <<",", " ">>

Quoted(s) == sQuote \o s \o sQuote

(* ------------------------- query translators -------------------------- *)
\* mutant: the label clause is pushed before the summary clause
jqlPartsLabelFirst(a) ==
  LET p0 == <<sProjectEq \o a.project>>
      p1 == IF Truthy(a, "status")
            THEN Append(p0, sStatusEq \o Quoted(a.status)) ELSE p0
      p2 == IF Truthy(a, "label")
            THEN Append(p1, sLabelsEq \o Quoted(a.label)) ELSE p1
      p3 == IF Truthy(a, "summary")
            THEN Append(p2, sSummaryTilde \o Quoted(a.summary)) ELSE p2
      p4 == IF Truthy(a, "assignee")
            THEN Append(p3, sAssigneeEq \o Quoted(a.assignee)) ELSE p3
      p5 == IF Truthy(a, "issueType")
            THEN Append(p4, sIssuetypeEq \o Quoted(a.issueType)) ELSE p4
  IN p5

\* get-jira-issues: the jqlParts pushes, in program order
jqlParts(a) ==
  LET p0 == <<sProjectEq \o a.project>>
      p1 == IF Truthy(a, "status")
            THEN Append(p0, sStatusEq \o Quoted(a.status)) ELSE p0
      p2 == IF Truthy(a, "summary")
            THEN Append(p1, sSummaryTilde \o Quoted(a.summary)) ELSE p1
      p3 == IF Truthy(a, "label")
            THEN Append(p2, sLabelsEq \o Quoted(a.label)) ELSE p2
      p4 == IF Truthy(a, "assignee")
            THEN Append(p3, sAssigneeEq \o Quoted(a.assignee)) ELSE p3
      p5 == IF Truthy(a, "issueType")
            THEN Append(p4, sIssuetypeEq \o Quoted(a.issueType)) ELSE p4
  IN p5

jql(a) == Join(jqlParts(a), sAnd)

\* mutant: the priority argument is accepted but never pushed
queryPartsNoPriority(a) ==
  LET p0 == <<>>
      p1 == IF TrimTruthy(a, "assigned_to")
            THEN Append(p0, sAssignedToEq \o Trim(a.assigned_to)) ELSE p0
      p2 == IF TrimTruthy(a, "state")
            THEN Append(p1, sStateEq \o Trim(a.state)) ELSE p1
      p4 == IF TrimTruthy(a, "short_description")
            THEN Append(p2, sShortDescLike \o Trim(a.short_description)) ELSE p2
  IN p4

\* get-servicenow-incidents: the queryParts pushes, in program order
queryParts(a) ==
  LET p0 == <<>>
      p1 == IF TrimTruthy(a, "assigned_to")
            THEN Append(p0, sAssignedToEq \o Trim(a.assigned_to)) ELSE p0
      p2 == IF TrimTruthy(a, "state")
            THEN Append(p1, sStateEq \o Trim(a.state)) ELSE p1
      p3 == IF TrimTruthy(a, "priority")
            THEN Append(p2, sPriorityEq \o Trim(a.priority)) ELSE p2
      p4 == IF TrimTruthy(a, "short_description")
            THEN Append(p3, sShortDescLike \o Trim(a.short_description)) ELSE p3
  IN p4

sysparm_query(a) == Join(queryParts(a), sCaret)


(* ------------------------- JSON and responses ------------------------- *)
sUndefined == <<"u","n","d","e","f","i","n","e","d">>

\* ${x.f} inside a template literal: a missing property prints "undefined"
Tpl(x, f) == IF Has(x, f) THEN x[f] ELSE sUndefined

\* a body response.json() rejects
NotJson == [t |-> "notjson"]

JiraItems ==
  { [key |-> <<"M","1">>,
     fields |-> [summary |-> <<"f","i","x">>,
                 status |-> [name |-> <<"D","o","n","e">>]]],
    [key |-> <<"M","2">>,
     fields |-> [summary |-> <<"a"," ","b">>,
                 status |-> [name |-> <<"O","p","e","n">>]]],
    [key |-> <<"M","3">>] }

SnItems ==
  { [number |-> <<"I","1">>, short_description |-> <<"d","i","s","k">>],
    [number |-> <<"I","2">>, short_description |-> <<"c","p","u"," ","h","o","t">>],
    [number |-> <<"I","3">>] }

JokeBodies ==
  { [t |-> "obj", value |-> <<"h","a">>, joke |-> <<"h","o">>,
     category |-> <<"f","a","t">>],
    [t |-> "obj"],
    [t |-> "arr", a |-> << <<"d","e","v">>, <<"f","o","o","d">> >>],
    NotJson }

SeqsUpTo(S, n) == UNION { [1..k -> S] : k \in 0..n }

OkResponse(j) == [ok |-> TRUE, status |-> 200, text |-> <<>>, json |-> j]

\* non-2xx responses: a plain-text body and a JSON error object
FailResponses ==
  { [ok |-> FALSE, status |-> 401, text |-> <<"d","e","n","i","e","d">>,
     json |-> NotJson],
    [ok |-> FALSE, status |-> 500, text |-> <<"{","}">>, json |-> [t |-> "obj"]] }

JokeTools ==
  { "get-chuck-joke", "get-chuck-joke-by-category", "get-chuck-categories",
    "get-dad-joke", "get-yo-momma-joke" }

Tools == JokeTools \cup {"get-jira-issues", "get-servicenow-incidents"}

\* what the upstream of a tool may answer, with lists of at most n items
Responses(tool, n) ==
  FailResponses \cup
  ( CASE tool = "get-jira-issues" ->
           { OkResponse([t |-> "obj", issues |-> l]) : l \in SeqsUpTo(JiraItems, n) }
           \cup { OkResponse([t |-> "obj"]), OkResponse(NotJson) }
      [] tool = "get-servicenow-incidents" ->
           { OkResponse([t |-> "obj", result |-> l]) : l \in SeqsUpTo(SnItems, n) }
           \cup { OkResponse([t |-> "obj"]), OkResponse(NotJson) }
      [] OTHER -> { OkResponse(j) : j \in JokeBodies } )

(* --------------------------- handler results -------------------------- *)
TextResult(s) == [kind |-> "text", name |-> "", text |-> s, defined |-> TRUE]
\* content text: undefined
UndefinedText == [kind |-> "text", name |-> "", text |-> <<>>, defined |-> FALSE]
Thrown(name, msg) == [kind |-> "error", name |-> name, text |-> msg, defined |-> TRUE]

\* text: data.f
TextOf(data, f) == IF Has(data, f) THEN TextResult(data[f]) ELSE UndefinedText

\* issues.map(...) line of one issue
IssueLine(i) ==
  <<"#">> \o Tpl(i, "key") \o <<":"," ">> \o Tpl(i.fields, "summary")
  \o <<" ","[">> \o i.fields.status.name \o <<"]">>

\* i.fields.summary or i.fields.status.name throws on this item
IssueThrows(i) == ~Has(i, "fields") \/ ~Has(i.fields, "status")

IncidentLine(i) ==
  <<"#">> \o Tpl(i, "number") \o <<":"," ">> \o Tpl(i, "short_description")

\* mutant: a ?? b, which keeps the empty string
OrElseNullish(a, b) == a

\* a || b on strings
OrElse(a, b) == IF a # <<>> THEN a ELSE b

getChuckJoke(resp) ==
  IF resp.json = NotJson THEN Thrown("SyntaxError", <<>>)
  ELSE TextOf(resp.json, "value")

getChuckCategories(resp) ==
  IF resp.json = NotJson THEN Thrown("SyntaxError", <<>>)
  ELSE IF resp.json.t # "arr" THEN Thrown("TypeError", <<>>)
  ELSE TextResult(Join(resp.json.a, sCommaSpace))

getDadJoke(resp) ==
  IF resp.json = NotJson THEN Thrown("SyntaxError", <<>>)
  ELSE TextOf(resp.json, "joke")

getYoMommaJoke(resp) ==
  IF ~resp.ok THEN Thrown("Error", sYoMommaFailed)
  ELSE IF resp.json = NotJson THEN Thrown("SyntaxError", <<>>)
  ELSE TextResult(sCategoryColon \o Tpl(resp.json, "category")
                  \o sJokeColon \o Tpl(resp.json, "joke"))

getJiraIssues(resp) ==
  IF ~resp.ok THEN Thrown("Error", sJiraError \o resp.text)
  ELSE IF resp.json = NotJson THEN Thrown("SyntaxError", <<>>)
  ELSE IF ~Has(resp.json, "issues") THEN Thrown("TypeError", <<>>)
  ELSE IF \E k \in 1..Len(resp.json.issues) : IssueThrows(resp.json.issues[k])
  THEN Thrown("TypeError", <<>>)
  ELSE LET issues == Join([k \in 1..Len(resp.json.issues) |-> IssueLine(resp.json.issues[k])],
                         sNewline)
       IN TextResult(OrElse(issues, sNoIssues))

getServiceNowIncidents(resp) ==
  IF ~resp.ok THEN Thrown("Error", sSnError \o resp.text)
  ELSE IF resp.json = NotJson THEN Thrown("SyntaxError", <<>>)
  ELSE IF ~Has(resp.json, "result") THEN Thrown("TypeError", <<>>)
  ELSE LET incidents == Join([k \in 1..Len(resp.json.result) |-> IncidentLine(resp.json.result[k])],
                            sNewline)
       IN TextResult(OrElse(incidents, sNoIncidents))

\* the part of a handler after its await fetch(...)
HandlerResult(tool, resp) ==
  CASE tool = "get-chuck-joke" -> getChuckJoke(resp)
    [] tool = "get-chuck-joke-by-category" -> getChuckJoke(resp)
    [] tool = "get-chuck-categories" -> getChuckCategories(resp)
    [] tool = "get-dad-joke" -> getDadJoke(resp)
    [] tool = "get-yo-momma-joke" -> getYoMommaJoke(resp)
    [] tool = "get-jira-issues" -> getJiraIssues(resp)
    [] tool = "get-servicenow-incidents" -> getServiceNowIncidents(resp)

(* --------------------------- outbound calls --------------------------- *)
\* the handler's local query string (jql / sysparm_query); none for jokes
HandlerQuery(tool, a) ==
  CASE tool = "get-jira-issues" -> jql(a)
    [] tool = "get-servicenow-incidents" -> sysparm_query(a)
    [] OTHER -> <<>>

jiraUrl(a) ==
  [api |-> "jira", host |-> "JIRA_DOMAIN", auth |-> "JIRA_AUTH",
   q |-> encodeURIComponent(jql(a)), n |-> LimitOrDefault(a)]

snUrl(a) ==
  [api |-> "servicenow", host |-> "SN_INSTANCE", auth |-> "basicAuth",
   q |-> encodeURIComponent(sysparm_query(a)), n |-> LimitOrDefault(a)]

\* the joke URLs are fixed; the category is appended as given
jokeUrl(tool, a) ==
  [api |-> tool, host |-> "", auth |-> "",
   q |-> IF tool = "get-chuck-joke-by-category" THEN a.category ELSE <<>>,
   n |-> 0]

FetchUrl(tool, a) ==
  CASE tool = "get-jira-issues" -> jiraUrl(a)
    [] tool = "get-servicenow-incidents" -> snUrl(a)
    [] OTHER -> jokeUrl(tool, a)

\* the zod argument schema of a tool: its required parameters
SchemaOk(tool, a) ==
  /\ tool = "get-jira-issues" => Has(a, "project")
  /\ tool = "get-chuck-joke-by-category" => Has(a, "category")


(* ------------------------------ inputs -------------------------------- *)
NoArgs == <<>>

\* an optional parameter: absent, or one of the values vs
Opt(f, vs) == {NoArgs} \cup { [x \in {f} |-> v] : v \in vs }

Blanks == { <<>>, <<" ">> }
Padded(s) == <<" ">> \o s \o <<" ">>

sMCP == <<"M","C","P">>
sDone == <<"D","o","n","e">>
sFix == <<"f","i","x">>
sBug == <<"b","u","g">>
sJane == <<"j","a","n","e">>
sTask == <<"T","a","s","k">>
sBob == <<"b","o","b">>
sTwo == <<"2">>
sOne == <<"1">>
sDiskFull == <<"d","i","s","k"," ","f","u","l","l">>
sDev == <<"d","e","v">>

Limits == Opt("limit", (0 - 1)..MaxLimit)

JiraCalls ==
  { [tool |-> "get-jira-issues", args |-> p @@ a1 @@ a2 @@ a3 @@ a4 @@ a5 @@ l] :
      p \in Opt("project", {<<>>, sMCP}),
      a1 \in Opt("status", Blanks \cup {sDone}),
      a2 \in Opt("summary", Blanks \cup {sFix}),
      a3 \in Opt("label", Blanks \cup {sBug}),
      a4 \in Opt("assignee", Blanks \cup {sJane}),
      a5 \in Opt("issueType", Blanks \cup {sTask}),
      l \in Limits }

SnCalls ==
  { [tool |-> "get-servicenow-incidents", args |-> a1 @@ a2 @@ a3 @@ a4 @@ l] :
      a1 \in Opt("assigned_to", Blanks \cup {sBob, Padded(sBob)}),
      a2 \in Opt("state", Blanks \cup {sTwo, Padded(sTwo)}),
      a3 \in Opt("priority", Blanks \cup {sOne, Padded(sOne)}),
      a4 \in Opt("short_description", Blanks \cup {sDiskFull, Padded(sDiskFull)}),
      l \in Limits }

JokeCalls ==
  { [tool |-> t, args |-> NoArgs] : t \in JokeTools }
  \cup { [tool |-> "get-chuck-joke-by-category", args |-> [category |-> sDev]] }

\* every argument set of the two ticketing tools over the sample values
AllCalls == JiraCalls \cup SnCalls \cup JokeCalls

\* a handful of calls, for runs with several requests in flight
FewCalls ==
  JokeCalls \cup
  { [tool |-> "get-jira-issues",
     args |-> [project |-> sMCP, status |-> sDone, assignee |-> sJane]],
    [tool |-> "get-jira-issues", args |-> [project |-> <<>>, limit |-> 0]],
    [tool |-> "get-jira-issues", args |-> [status |-> sDone]],
    [tool |-> "get-servicenow-incidents",
     args |-> [assigned_to |-> sBob, short_description |-> sDiskFull]],
    [tool |-> "get-servicenow-incidents", args |-> [limit |-> 3]] }

Methods == {"POST", "GET", "DELETE", "PUT", "PATCH"}

(* ------------------------------- state -------------------------------- *)
VARIABLES
  inbound,   \* per request: the HTTP method and the tool call it carries
  pc,        \* per request: "idle", "awaiting" (at await fetch) or "done"
  query,     \* per request: the handler's local jql / sysparm_query
  sent,      \* per request: the outbound requests issued, in order
  upstream,  \* per request: the response fetch resolved with
  outcome,   \* per request: what the handler returned or threw, in order
  reply      \* per request: the HTTP reply written to res

vars == <<inbound, pc, query, sent, upstream, outcome, reply>>

NoRequest == [method |-> "", tool |-> "", args |-> NoArgs]
NoResponse == [ok |-> FALSE, status |-> 0, text |-> <<>>, json |-> NotJson]
NoReply == [status |-> 0, code |-> 0, message |-> ""]

MethodNotAllowedReply == [status |-> 405, code |-> -32000, message |-> "Method not allowed."]
NotFoundReply == [status |-> 404, code |-> 0, message |-> "Not Found"]
InvalidParamsReply == [status |-> 200, code |-> -32602, message |-> "Invalid params"]
ToolReply == [status |-> 200, code |-> 0, message |-> ""]

Init ==
  /\ inbound = [r \in Requests |-> NoRequest]
  /\ pc = [r \in Requests |-> "idle"]
  /\ query = [r \in Requests |-> <<>>]
  /\ sent = [r \in Requests |-> <<>>]
  /\ upstream = [r \in Requests |-> NoResponse]
  /\ outcome = [r \in Requests |-> <<>>]
  /\ reply = [r \in Requests |-> NoReply]

\* app.get("/mcp")
McpGet(r) ==
  /\ pc[r] = "idle"
  /\ inbound' = [inbound EXCEPT ![r] = [method |-> "GET", tool |-> "", args |-> NoArgs]]
  /\ reply' = [reply EXCEPT ![r] = MethodNotAllowedReply]
  /\ pc' = [pc EXCEPT ![r] = "done"]
  /\ UNCHANGED <<query, sent, upstream, outcome>>

\* app.delete("/mcp")
McpDelete(r) ==
  /\ pc[r] = "idle"
  /\ inbound' = [inbound EXCEPT ![r] = [method |-> "DELETE", tool |-> "", args |-> NoArgs]]
  /\ reply' = [reply EXCEPT ![r] = MethodNotAllowedReply]
  /\ pc' = [pc EXCEPT ![r] = "done"]
  /\ UNCHANGED <<query, sent, upstream, outcome>>

\* a method with no route on /mcp: Express answers 404
McpNoRoute(r) ==
  /\ pc[r] = "idle"
  /\ \E m \in Methods \ {"POST", "GET", "DELETE"} :
       inbound' = [inbound EXCEPT ![r] = [method |-> m, tool |-> "", args |-> NoArgs]]
  /\ reply' = [reply EXCEPT ![r] = NotFoundReply]
  /\ pc' = [pc EXCEPT ![r] = "done"]
  /\ UNCHANGED <<query, sent, upstream, outcome>>

\* app.post("/mcp"), arguments the tool's schema rejects: no handler runs
McpPostInvalid(r, calls) ==
  /\ pc[r] = "idle"
  /\ \E call \in calls :
       /\ ~SchemaOk(call.tool, call.args)
       /\ inbound' = [inbound EXCEPT ![r] = [method |-> "POST", tool |-> call.tool, args |-> call.args]]
  /\ reply' = [reply EXCEPT ![r] = InvalidParamsReply]
  /\ pc' = [pc EXCEPT ![r] = "done"]
  /\ UNCHANGED <<query, sent, upstream, outcome>>

\* mutant: the URL is kept in one module-level variable, which every
\* handler still waiting on its fetch shares
McpPostCallShared(r, calls) ==
  /\ pc[r] = "idle"
  /\ \E call \in calls :
       /\ SchemaOk(call.tool, call.args)
       /\ inbound' = [inbound EXCEPT ![r] = [method |-> "POST", tool |-> call.tool, args |-> call.args]]
       /\ query' = [query EXCEPT ![r] = HandlerQuery(call.tool, call.args)]
       /\ sent' = [q \in Requests |->
                     IF q = r \/ pc[q] = "awaiting"
                     THEN <<FetchUrl(call.tool, call.args)>> ELSE sent[q]]
  /\ pc' = [pc EXCEPT ![r] = "awaiting"]
  /\ UNCHANGED <<upstream, outcome, reply>>

\* app.post("/mcp"): the handler runs up to its await fetch(url)
McpPostCall(r, calls) ==
  /\ pc[r] = "idle"
  /\ \E call \in calls :
       /\ SchemaOk(call.tool, call.args)
       /\ inbound' = [inbound EXCEPT ![r] = [method |-> "POST", tool |-> call.tool, args |-> call.args]]
       /\ query' = [query EXCEPT ![r] = HandlerQuery(call.tool, call.args)]
       /\ sent' = [sent EXCEPT ![r] = Append(@, FetchUrl(call.tool, call.args))]
  /\ pc' = [pc EXCEPT ![r] = "awaiting"]
  /\ UNCHANGED <<upstream, outcome, reply>>

\* mutant: a non-success status makes the handler fetch the URL again
FetchResolvesRetry(r, n) ==
  /\ pc[r] = "awaiting"
  /\ \E resp \in Responses(inbound[r].tool, n) :
       /\ upstream' = [upstream EXCEPT ![r] = resp]
       /\ IF resp.ok
          THEN /\ outcome' = [outcome EXCEPT ![r] = Append(@, HandlerResult(inbound[r].tool, resp))]
               /\ reply' = [reply EXCEPT ![r] = ToolReply]
               /\ pc' = [pc EXCEPT ![r] = "done"]
               /\ UNCHANGED sent
          ELSE /\ sent' = [sent EXCEPT ![r] = Append(@, sent[r][1])]
               /\ UNCHANGED <<outcome, reply, pc>>
  /\ UNCHANGED <<inbound, query>>

\* fetch resolves with a response: the handler runs to its return or throw
FetchResolves(r, n) ==
  /\ pc[r] = "awaiting"
  /\ \E resp \in Responses(inbound[r].tool, n) :
       /\ upstream' = [upstream EXCEPT ![r] = resp]
       /\ outcome' = [outcome EXCEPT ![r] = Append(@, HandlerResult(inbound[r].tool, resp))]
  /\ reply' = [reply EXCEPT ![r] = ToolReply]
  /\ pc' = [pc EXCEPT ![r] = "done"]
  /\ UNCHANGED <<inbound, query, sent>>

\* fetch rejects (no response at all): the await throws out of the handler
FetchRejects(r) ==
  /\ pc[r] = "awaiting"
  /\ outcome' = [outcome EXCEPT ![r] = Append(@, Thrown("TypeError", <<"f","e","t","c","h">>))]
  /\ reply' = [reply EXCEPT ![r] = ToolReply]
  /\ pc' = [pc EXCEPT ![r] = "done"]
  /\ UNCHANGED <<inbound, query, sent, upstream>>

\* several requests in flight, a handful of calls each
Next ==
  \E r \in Requests :
    \/ McpGet(r)
    \/ McpDelete(r)
    \/ McpNoRoute(r)
    \/ McpPostInvalid(r, FewCalls)
    \/ McpPostCall(r, FewCalls)
    \/ FetchResolves(r, 1)
    \/ FetchRejects(r)

Spec == Init /\ [][Next]_vars

\* one request, every argument set and every upstream answer
NextAll ==
  \/ McpGet(1)
  \/ McpDelete(1)
  \/ McpNoRoute(1)
  \/ McpPostInvalid(1, AllCalls)
  \/ McpPostCall(1, AllCalls)
  \/ FetchResolves(1, MaxItems)
  \/ FetchRejects(1)

SpecAll == Init /\ [][NextAll]_vars


(* ====================== properties of the model ======================= *)
\* requests whose handler has run up to its fetch
Called(r, tool) ==
  /\ pc[r] # "idle"
  /\ inbound[r].method = "POST"
  /\ inbound[r].tool = tool
  /\ SchemaOk(tool, inbound[r].args)

IsPrefix(p, s) == Len(p) <= Len(s) /\ SubSeq(s, 1, Len(p)) = p
IsSuffix(p, s) == Len(p) <= Len(s) /\ SubSeq(s, Len(s) - Len(p) + 1, Len(s)) = p

\* String.prototype.split on a non-empty separator
RECURSIVE Split(_, _)
Split(s, sep) ==
  LET at == { i \in 1..Len(s) : IsPrefix(sep, SubSeq(s, i, Len(s))) }
  IN IF at = {} THEN <<s>>
     ELSE LET i == CHOOSE k \in at : \A m \in at : k <= m
          IN <<SubSeq(s, 1, i - 1)>> \o Split(SubSeq(s, i + Len(sep), Len(s)), sep)

\* the clauses of a query string: none in the empty string
Clauses(s, sep) == IF s = <<>> THEN <<>> ELSE Split(s, sep)

\* v with its leading and trailing whitespace removed, stated by what it is:
\* the part of v from its first to its last non-whitespace character
Stripped(v) ==
  LET ink == { k \in 1..Len(v) : v[k] \notin WhiteSpace }
  IN IF ink = {} THEN <<>>
     ELSE SubSeq(v, CHOOSE k \in ink : \A m \in ink : k <= m,
                    CHOOSE k \in ink : \A m \in ink : k >= m)

NonBlank(a, f) == Has(a, f) /\ Stripped(a[f]) # <<>>

JiraFields == <<"status", "summary", "label", "assignee", "issueType">>
SnFields == <<"assigned_to", "state", "priority", "short_description">>

Range(q) == { q[k] : k \in DOMAIN q }

\* the clause the specification gives a Jira field
JiraClause(f, v) ==
  CASE f = "status" -> sStatusEq \o Quoted(v)
    [] f = "summary" -> sSummaryTilde \o Quoted(v)
    [] f = "label" -> sLabelsEq \o Quoted(v)
    [] f = "assignee" -> sAssigneeEq \o Quoted(v)
    [] f = "issueType" -> sIssuetypeEq \o Quoted(v)

\* the clause the specification gives a ServiceNow field
SnClause(f, v) ==
  CASE f = "assigned_to" -> sAssignedToEq \o v
    [] f = "state" -> sStateEq \o v
    [] f = "priority" -> sPriorityEq \o v
    [] f = "short_description" -> sShortDescLike \o v

\* the supplied fields of a, in the fixed order
Supplied(order, a) == LET Given(f) == Has(a, f) IN SelectSeq(order, Given)
SuppliedNonBlank(order, a) == LET Given(f) == NonBlank(a, f) IN SelectSeq(order, Given)

sExampleJql ==
  <<"p","r","o","j","e","c","t","=","M","C","P"," ","A","N","D"," ","s","t",
    "a","t","u","s","=","\"","D","o","n","e","\""," ","A","N","D"," ","a",
    "s","s","i","g","n","e","e","=","\"","j","a","n","e","\"">>

sExampleSnQuery ==
  <<"a","s","s","i","g","n","e","d","_","t","o","=","b","o","b","^","s","h",
    "o","r","t","_","d","e","s","c","r","i","p","t","i","o","n","L","I","K",
    "E","d","i","s","k"," ","f","u","l","l">>

(* C1: for every get-jira-issues call whose supplied optional values are   *)
(* non-blank, the JQL is project=<project> followed by the clauses of the  *)
(* supplied fields in the order status, summary, labels, assignee,         *)
(* issuetype, joined with " AND "; with only project set it is exactly     *)
(* project=<project>; {MCP, Done, jane} gives the specification's example. *)
C1_JqlFixedOrder ==
  \A r \in Requests :
    LET a == inbound[r].args
        fs == Supplied(JiraFields, a)
    IN (Called(r, "get-jira-issues") /\ \A f \in Range(fs) : NonBlank(a, f)) =>
         /\ query[r] =
              Join(<<sProjectEq \o a.project>>
                   \o [k \in 1..Len(fs) |-> JiraClause(fs[k], a[fs[k]])], sAnd)
         /\ IsPrefix(sProjectEq \o a.project, query[r])
         /\ fs = <<>> => query[r] = sProjectEq \o a.project
         /\ a = [project |-> sMCP, status |-> sDone, assignee |-> sJane]
              => query[r] = sExampleJql
         /\ sent[r][1].q = encodeURIComponent(query[r])

C1_Witness ==
  \E r \in Requests :
    /\ Called(r, "get-jira-issues")
    /\ inbound[r].args = [project |-> sMCP, status |-> sDone, assignee |-> sJane]
    /\ query[r] = sExampleJql


(* C2: in both translators every optional field that is non-blank after    *)
(* trimming contributes exactly one clause and an absent, empty or         *)
(* whitespace-only field contributes none: the number of clauses (split on *)
(* " AND " for Jira, on "^" for ServiceNow) is the number of non-blank     *)
(* optional fields, plus the project clause for Jira.                      *)
C2_OneClausePerNonBlankField ==
  \A r \in Requests :
    LET a == inbound[r].args
    IN /\ Called(r, "get-jira-issues") =>
            Len(Clauses(query[r], sAnd)) = 1 + Len(SuppliedNonBlank(JiraFields, a))
       /\ Called(r, "get-servicenow-incidents") =>
            Len(Clauses(query[r], sCaret)) = Len(SuppliedNonBlank(SnFields, a))

(* C3: for every get-servicenow-incidents call, sysparm_query is the       *)
(* clauses assigned_to=, state=, priority=, short_descriptionLIKE in that  *)
(* order, each with the value stripped of leading and trailing whitespace, *)
(* restricted to the fields non-blank after trimming and joined with "^";  *)
(* with no filter it is empty; {bob, "disk full"} gives the example.       *)
C3_SysparmQuery ==
  \A r \in Requests :
    LET a == inbound[r].args
        fs == SuppliedNonBlank(SnFields, a)
    IN Called(r, "get-servicenow-incidents") =>
         /\ query[r] =
              Join([k \in 1..Len(fs) |-> SnClause(fs[k], Stripped(a[fs[k]]))], sCaret)
         /\ fs = <<>> => query[r] = <<>>
         /\ a = [assigned_to |-> sBob, short_description |-> sDiskFull]
              => query[r] = sExampleSnQuery
         /\ sent[r][1].q = encodeURIComponent(query[r])

C3_Witness ==
  \E r \in Requests :
    /\ Called(r, "get-servicenow-incidents")
    /\ inbound[r].args =
         [assigned_to |-> Padded(sBob), state |-> <<" ">>, priority |-> sOne,
          short_description |-> Padded(sDiskFull)]
    /\ query[r] = sAssignedToEq \o sBob \o sCaret \o sPriorityEq \o sOne
                  \o sCaret \o sShortDescLike \o sDiskFull

\* a filter input the specification calls invalid
InvalidFilter(tool, a) ==
  \/ tool = "get-jira-issues" /\ (~Has(a, "project") \/ a.project = <<>>)
  \/ tool \in {"get-jira-issues", "get-servicenow-incidents"}
       /\ Has(a, "limit") /\ a.limit < 1

(* C4: a Jira or ServiceNow call with an invalid filter input (project     *)
(* missing or empty, limit present but below 1) fails before any outbound  *)
(* call: no request is ever sent for it, so none is sent with an empty     *)
(* project clause or with maxResults / sysparm_limit below 1.              *)
C4_InvalidFilterNeverSent ==
  \A r \in Requests :
    (inbound[r].method = "POST" /\ InvalidFilter(inbound[r].tool, inbound[r].args)) =>
      /\ sent[r] = <<>>
      /\ \A k \in 1..Len(outcome[r]) : outcome[r][k].kind = "error"

(* C5: for every tool handler, when the outbound call returns a            *)
(* non-success HTTP status the handler ends with an error carrying the     *)
(* upstream's raw response body, produces no text result and makes no      *)
(* further outbound call.                                                  *)
C5_NonSuccessFailsWithBody ==
  \A r \in Requests :
    (pc[r] = "done" /\ upstream[r] # NoResponse /\ ~upstream[r].ok) =>
      /\ Len(outcome[r]) = 1
      /\ outcome[r][1].kind = "error"
      /\ IsSuffix(upstream[r].text, outcome[r][1].text)
      /\ Len(sent[r]) = 1

(* C6: every handler invocation issues at most one outbound HTTP call over *)
(* its whole execution and ends with exactly one outcome, a text result or *)
(* an error: none while the call is in flight, one once it has settled.    *)
C6_OneCallOneOutcome ==
  \A r \in Requests :
    /\ Len(sent[r]) <= 1
    /\ Len(outcome[r]) <= 1
    /\ pc[r] = "awaiting" => (Len(sent[r]) = 1 /\ outcome[r] = <<>>)
    /\ (pc[r] = "done" /\ sent[r] # <<>>) =>
         (Len(outcome[r]) = 1 /\ outcome[r][1].kind \in {"text", "error"})
    /\ sent[r] = <<>> => outcome[r] = <<>>

C6_Witness ==
  \E r \in Requests :
    /\ pc[r] = "done"
    /\ inbound[r].tool = "get-jira-issues"
    /\ upstream[r] # NoResponse /\ ~upstream[r].ok
    /\ Len(sent[r]) = 1
    /\ Len(outcome[r]) = 1 /\ outcome[r][1].kind = "error"

C8_NonPostMethodNotAllowed ==
  \A r \in Requests :
    (pc[r] # "idle" /\ inbound[r].method # "POST") =>
      /\ reply[r].code = -32000
      /\ reply[r].message = "Method not allowed."
      /\ sent[r] = <<>> /\ outcome[r] = <<>>

\* the list a successful ticketing response carries, if it has one
Listed(tool, resp) ==
  IF tool = "get-jira-issues" THEN resp.json.issues ELSE resp.json.result

HasList(tool, resp) ==
  /\ resp.ok /\ resp.json # NotJson
  /\ Has(resp.json, IF tool = "get-jira-issues" THEN "issues" ELSE "result")

\* an item all of whose printed properties are present
WellFormed(tool, i) ==
  IF tool = "get-jira-issues" THEN Has(i, "key") /\ Has(i, "fields")
  ELSE Has(i, "number") /\ Has(i, "short_description")

\* the line the specification gives an item
SpecLine(tool, i) ==
  IF tool = "get-jira-issues"
  THEN <<"#">> \o i.key \o <<":", " ">> \o i.fields.summary
       \o <<" ", "[">> \o i.fields.status.name \o <<"]">>
  ELSE <<"#">> \o i.number \o <<":", " ">> \o i.short_description

Sentinel(tool) == IF tool = "get-jira-issues" THEN sNoIssues ELSE sNoIncidents

(* C9: for the Jira and ServiceNow handlers on a successful response, the  *)
(* returned text is the fixed sentinel if and only if the upstream list is *)
(* empty; otherwise it is one line per item in upstream order,             *)
(* #<key>: <summary> [<status>] or #<number>: <short_description>, joined  *)
(* by newlines; the returned text is never the empty string.               *)
C9_SentinelIffEmpty ==
  \A r \in Requests :
    \A tool \in {"get-jira-issues", "get-servicenow-incidents"} :
      (Called(r, tool) /\ pc[r] = "done" /\ HasList(tool, upstream[r])
         /\ outcome[r] # <<>> /\ outcome[r][1].kind = "text") =>
        LET l == Listed(tool, upstream[r])
            text == outcome[r][1].text
            lines == Split(text, sNewline)
        IN /\ outcome[r][1].defined
           /\ text # <<>>
           /\ (text = Sentinel(tool)) <=> (l = <<>>)
           /\ l # <<>> =>
                /\ Len(lines) = Len(l)
                /\ \A k \in 1..Len(l) :
                     WellFormed(tool, l[k]) => lines[k] = SpecLine(tool, l[k])

C9_WitnessEmpty ==
  \E r \in Requests :
    /\ Called(r, "get-servicenow-incidents") /\ pc[r] = "done"
    /\ HasList("get-servicenow-incidents", upstream[r])
    /\ upstream[r].json.result = <<>>
    /\ outcome[r] = <<TextResult(sNoIncidents)>>

(* C10: for both ticketing handlers the result-count parameter of the      *)
(* outbound request (maxResults / sysparm_limit) is 5 when limit is absent *)
(* and n when limit is a positive integer n, whatever the other arguments. *)
C10_LimitDefault ==
  \A r \in Requests :
    \A tool \in {"get-jira-issues", "get-servicenow-incidents"} :
      Called(r, tool) =>
        /\ Len(sent[r]) = 1
        /\ ~Has(inbound[r].args, "limit") => sent[r][1].n = 5
        /\ (Has(inbound[r].args, "limit") /\ inbound[r].args.limit >= 1)
             => sent[r][1].n = inbound[r].args.limit

C10_Witness ==
  \E r \in Requests :
    /\ Called(r, "get-servicenow-incidents")
    /\ Has(inbound[r].args, "limit") /\ inbound[r].args.limit = 3
    /\ Has(inbound[r].args, "state")
    /\ sent[r][1].n = 3

====
